---- MODULE Spec2Model ----
(***************************************************************************)
(* Model of the quiz-file validator of the quiz_vs_extension repository    *)
(* (extension.ts): validateQuizFile, validateMetadata, validateQuestions   *)
(* and the handlers that call them.                                        *)
(*                                                                         *)
(* A JSON value is a record tagged by k.  A number is kept in halves       *)
(* (h = 2 * value) so that the non-integer 0.5 is a value of the model.    *)
(* An object carries every key the validator reads; an absent key holds    *)
(* Undefined, which is what a JavaScript property read returns for it.     *)
(* A document's text is its parse tree together with its syntactic state:  *)
(* JSON.parse either returns the tree or throws a SyntaxError.             *)
(* The source range of a diagnostic is not modelled.                       *)
(***************************************************************************)
EXTENDS Integers, Sequences, FiniteSets, TLC

VARIABLES textDocuments, activeTextEditor, validate, diagnosticCollection, uncaught

vars == <<textDocuments, activeTextEditor, validate, diagnosticCollection, uncaught>>

(***************************************************************************)
(* Bounds of the model.                                                    *)
(***************************************************************************)
MaxOptions == 2
MaxAnswers == 2
MaxQuestions == 2
MaxSchemaErrors == 1

(***************************************************************************)
(* JSON values and the JavaScript operations the validator applies.        *)
(***************************************************************************)
Undefined == [k |-> "undefined"]
Null == [k |-> "null"]
Bool(b) == [k |-> "bool", b |-> b]
Num(h) == [k |-> "num", h |-> h]
IntNum(n) == Num(2 * n)
Str(s) == [k |-> "str", s |-> s]
Arr(a) == [k |-> "arr", a |-> a]

Keys == {"metadata", "questions", "title", "description", "version", "author",
         "type", "text", "options", "correct_answers"}

EmptyProps == [key \in Keys |-> Undefined]
Obj(p) == [k |-> "obj", p |-> p]
EmptyObj == Obj(EmptyProps)

QuizObj(metadata, questions) ==
    Obj([EmptyProps EXCEPT !["metadata"] = metadata, !["questions"] = questions])

MetadataObj(title, description, version, author) ==
    Obj([EmptyProps EXCEPT !["title"] = title, !["description"] = description,
                           !["version"] = version, !["author"] = author])

QuestionObj(type, text, options, correct_answers) ==
    Obj([EmptyProps EXCEPT !["type"] = type, !["text"] = text,
                           !["options"] = options,
                           !["correct_answers"] = correct_answers])

\* v[key] for a value v that is neither null nor undefined
Get(v, key) == IF v.k = "obj" THEN v.p[key] ELSE Undefined

\* reading a property of null (or undefined) throws a TypeError
ThrowsOnGet(v) == v.k \in {"null", "undefined"}

TypeErrorMessage(v, key) ==
    "Cannot read properties of " \o v.k \o " (reading '" \o key \o "')"

\* ToBoolean(v), as applied by !v, v && w and if (v)
Truthy(v) ==
    CASE v.k \in {"undefined", "null"} -> FALSE
      [] v.k = "bool" -> v.b
      [] v.k = "num" -> v.h # 0
      [] v.k = "str" -> v.s # ""
      [] OTHER -> TRUE

TypeOf(v) ==
    CASE v.k = "undefined" -> "undefined"
      [] v.k = "bool" -> "boolean"
      [] v.k = "num" -> "number"
      [] v.k = "str" -> "string"
      [] OTHER -> "object"

IsArray(v) == v.k = "arr"

Length(v) == Len(v.a)

\* Number.prototype.toString for the numbers of the model
NumberToString(h) ==
    IF h % 2 = 0 THEN ToString(h \div 2)
    ELSE IF h < 0 THEN "-" \o ToString((0 - h) \div 2) \o ".5"
    ELSE ToString(h \div 2) \o ".5"

RECURSIVE JSString(_)
RECURSIVE Join(_, _)
\* Array.prototype.join(","): null and undefined elements render as ""
Join(a, i) ==
    IF i > Len(a) THEN ""
    ELSE (IF i > 1 THEN "," ELSE "")
         \o (IF a[i].k \in {"null", "undefined"} THEN "" ELSE JSString(a[i]))
         \o Join(a, i + 1)

\* the string a template literal `${v}` substitutes for v
JSString(v) ==
    CASE v.k = "undefined" -> "undefined"
      [] v.k = "null" -> "null"
      [] v.k = "bool" -> (IF v.b THEN "true" ELSE "false")
      [] v.k = "num" -> NumberToString(v.h)
      [] v.k = "str" -> v.s
      [] v.k = "arr" -> Join(v.a, 1)
      [] OTHER -> "[object Object]"

\* a < n and a >= n for a JSON number a and an integer n
NumLess(v, n) == v.h < 2 * n
NumIs(v, n) == v.k = "num" /\ v.h = 2 * n

QuestionTypes == <<"multiple_choice", "single_choice", "true_false">>

\* mutant: multiple_choice is the only type of the list
IncludesTypeOnlyMultipleChoice(v) == v = Str("multiple_choice")

\* ['multiple_choice', 'single_choice', 'true_false'].includes(v): strict equality
IncludesType(v) == v.k = "str" /\ \E i \in 1..Len(QuestionTypes) : QuestionTypes[i] = v.s

(***************************************************************************)
(* Diagnostics.                                                            *)
(***************************************************************************)
Error == "Error"
Warning == "Warning"

Diagnostic(message, severity, source) ==
    [message |-> message, severity |-> severity, source |-> source]

QuizValidator(message, severity) == Diagnostic(message, severity, "quiz-validator")

Q(index) == "Question " \o ToString(index + 1) \o ": "

(***************************************************************************)
(* Documents.  A file name is kept as its stem and its last suffix.        *)
(***************************************************************************)
FileName(stem, ext) == [stem |-> stem, ext |-> ext]

\* fileName.endsWith('.quiz')
EndsWithQuiz(fileName) == fileName.ext = ".quiz"

isQuizFile(document) == EndsWithQuiz(document.fileName)

\* String.prototype.toLowerCase, on the letters the file names are made of
LowerCaseLetter(c) ==
    CASE c = "A" -> "a" [] c = "B" -> "b" [] c = "I" -> "i" [] c = "N" -> "n"
      [] c = "Q" -> "q" [] c = "T" -> "t" [] c = "U" -> "u" [] c = "X" -> "x"
      [] c = "Z" -> "z" [] OTHER -> c

RECURSIVE toLowerCase(_)
toLowerCase(s) ==
    IF s = "" THEN ""
    ELSE LowerCaseLetter(SubSeq(s, 1, 1)) \o toLowerCase(SubSeq(s, 2, Len(s)))

\* fileName.toLowerCase().endsWith('.quiz')
LowerCaseEndsWithQuiz(fileName) == toLowerCase(fileName.ext) = ".quiz"

ValidText(value) == [syntax |-> "valid", value |-> value]
BrokenText(syntax) == [syntax |-> syntax, value |-> Undefined]

SyntaxErrorMessage(syntax) ==
    CASE syntax = "empty" -> "Unexpected end of JSON input"
      [] syntax = "truncated" -> "Unexpected end of JSON input"
      [] OTHER -> "Unexpected token i in JSON at position 2"

\* outcome of a block of code: what it pushed, and the exception it threw
Completed(diagnostics) == [diagnostics |-> diagnostics, threw |-> FALSE, error |-> ""]
Thrown(diagnostics, error) == [diagnostics |-> diagnostics, threw |-> TRUE, error |-> error]

JSONParse(text) ==
    IF text.syntax = "valid"
    THEN [threw |-> FALSE, value |-> text.value, error |-> ""]
    ELSE [threw |-> TRUE, value |-> Undefined, error |-> SyntaxErrorMessage(text.syntax)]

(***************************************************************************)
(* validateMetadata                                                        *)
(***************************************************************************)
requiredFields == <<"title", "description", "version", "author">>

\* mutant: the type check is no longer in the else branch of the presence check
MetadataFieldCheckNoElse(metadata, field) ==
    (IF ~Truthy(Get(metadata, field))
     THEN <<QuizValidator("Missing required property: metadata." \o field, Error)>>
     ELSE <<>>)
    \o (IF TypeOf(Get(metadata, field)) # "string"
        THEN <<QuizValidator("metadata." \o field \o " must be a string", Error)>>
        ELSE <<>>)

MetadataFieldCheck(metadata, field) ==
    IF ~Truthy(Get(metadata, field))
    THEN <<QuizValidator("Missing required property: metadata." \o field, Error)>>
    ELSE IF TypeOf(Get(metadata, field)) # "string"
         THEN <<QuizValidator("metadata." \o field \o " must be a string", Error)>>
         ELSE <<>>

RECURSIVE MetadataLoop(_, _)
MetadataLoop(metadata, i) ==
    IF i > Len(requiredFields) THEN <<>>
    ELSE MetadataFieldCheck(metadata, requiredFields[i]) \o MetadataLoop(metadata, i + 1)

validateMetadata(metadata) == MetadataLoop(metadata, 1)

(***************************************************************************)
(* validateQuestions: the checks of one question, in the order of the code *)
(***************************************************************************)
TypeCheck(question, index) ==
    IF ~Truthy(Get(question, "type"))
    THEN <<QuizValidator(Q(index) \o "Missing required property: type", Error)>>
    ELSE IF ~IncludesType(Get(question, "type"))
         THEN <<QuizValidator(Q(index) \o "Invalid question type '"
                    \o JSString(Get(question, "type"))
                    \o "'. Supported types: multiple_choice, single_choice, true_false",
                    Error)>>
         ELSE <<>>

TextCheck(question, index) ==
    IF ~Truthy(Get(question, "text"))
    THEN <<QuizValidator(Q(index) \o "Missing required property: text", Error)>>
    ELSE IF TypeOf(Get(question, "text")) # "string"
         THEN <<QuizValidator(Q(index) \o "text must be a string", Error)>>
         ELSE <<>>

OptionsCheck(question, index) ==
    LET options == Get(question, "options")
        type == Get(question, "type")
    IN  IF ~Truthy(options)
        THEN <<QuizValidator(Q(index) \o "Missing required property: options", Error)>>
        ELSE IF ~IsArray(options)
        THEN <<QuizValidator(Q(index) \o "options must be an array", Error)>>
        ELSE IF type = Str("true_false")
        THEN IF Length(options) # 2
             THEN <<QuizValidator(Q(index) \o "true_false questions must have exactly 2 options", Error)>>
             ELSE <<>>
        ELSE IF Length(options) < 2
        THEN <<QuizValidator(Q(index) \o JSString(type)
                   \o " questions must have at least 2 options", Warning)>>
        ELSE <<>>

\* mutant: the cardinality rule is applied to every question type
CardinalityCheckAnyType(question, index) ==
    IF Length(Get(question, "correct_answers")) # 1
    THEN <<QuizValidator(Q(index) \o JSString(Get(question, "type"))
               \o " questions must have exactly one correct answer", Error)>>
    ELSE <<>>

CardinalityCheck(question, index) ==
    LET type == Get(question, "type")
        correct_answers == Get(question, "correct_answers")
    IN  IF (type = Str("single_choice") \/ type = Str("true_false"))
           /\ Length(correct_answers) # 1
        THEN <<QuizValidator(Q(index) \o JSString(type)
                   \o " questions must have exactly one correct answer", Error)>>
        ELSE <<>>

\* mutant: the upper bound of the range check is off by one
InvalidIndexOffByOne(answerIndex, options) ==
    IF TypeOf(answerIndex) # "number" THEN TRUE
    ELSE NumLess(answerIndex, 0) \/ ~NumLess(answerIndex, Length(options) - 1)

InvalidIndex(answerIndex, options) ==
    IF TypeOf(answerIndex) # "number" THEN TRUE
    ELSE NumLess(answerIndex, 0) \/ ~NumLess(answerIndex, Length(options))

IndexCheck(answerIndex, options, index) ==
    IF InvalidIndex(answerIndex, options)
    THEN <<QuizValidator(Q(index) \o "correct_answers contains invalid index "
               \o JSString(answerIndex) \o ". Valid range: 0-"
               \o ToString(Length(options) - 1), Error)>>
    ELSE <<>>

\* mutant: an index that is already in the array before entry i is rejected
RECURSIVE IndexLoopRejectingDuplicates(_, _, _, _)
IndexLoopRejectingDuplicates(correct_answers, options, index, i) ==
    IF i > Length(correct_answers) THEN <<>>
    ELSE IndexCheck(correct_answers.a[i], options, index)
         \o (IF \E j \in 1..(i - 1) : correct_answers.a[j] = correct_answers.a[i]
             THEN <<QuizValidator(Q(index) \o "correct_answers contains duplicate index "
                        \o JSString(correct_answers.a[i]), Error)>>
             ELSE <<>>)
         \o IndexLoopRejectingDuplicates(correct_answers, options, index, i + 1)

RECURSIVE IndexLoop(_, _, _, _)
IndexLoop(correct_answers, options, index, i) ==
    IF i > Length(correct_answers) THEN <<>>
    ELSE IndexCheck(correct_answers.a[i], options, index)
         \o IndexLoop(correct_answers, options, index, i + 1)

TrueFalseCheck(question, index) ==
    LET correct_answers == Get(question, "correct_answers")
    IN  IF Get(question, "type") = Str("true_false") /\ Length(correct_answers) = 1
        THEN IF ~NumIs(correct_answers.a[1], 0) /\ ~NumIs(correct_answers.a[1], 1)
             THEN <<QuizValidator(Q(index)
                        \o "true_false questions must have correct_answers index 0 or 1",
                        Error)>>
             ELSE <<>>
        ELSE <<>>

\* mutant: an empty correct_answers is reported and then checked like any array
CorrectAnswersCheckEmptyFallsThrough(question, index) ==
    LET correct_answers == Get(question, "correct_answers")
        options == Get(question, "options")
    IN  IF ~Truthy(correct_answers)
        THEN <<QuizValidator(Q(index) \o "Missing required property: correct_answers", Error)>>
        ELSE IF correct_answers = Null
        THEN <<QuizValidator(Q(index) \o "correct_answers cannot be null", Error)>>
        ELSE IF ~IsArray(correct_answers)
        THEN <<QuizValidator(Q(index) \o "correct_answers must be an array", Error)>>
        ELSE (IF Length(correct_answers) = 0
              THEN <<QuizValidator(Q(index) \o "correct_answers cannot be empty", Error)>>
              ELSE <<>>)
             \o CardinalityCheck(question, index)
             \o (IF Truthy(options) /\ IsArray(options)
                 THEN IndexLoop(correct_answers, options, index, 1)
                      \o TrueFalseCheck(question, index)
                 ELSE <<>>)

\* mutant: the true_false domain check does not depend on options
CorrectAnswersCheckUngated(question, index) ==
    LET correct_answers == Get(question, "correct_answers")
        options == Get(question, "options")
    IN  IF ~Truthy(correct_answers)
        THEN <<QuizValidator(Q(index) \o "Missing required property: correct_answers", Error)>>
        ELSE IF correct_answers = Null
        THEN <<QuizValidator(Q(index) \o "correct_answers cannot be null", Error)>>
        ELSE IF ~IsArray(correct_answers)
        THEN <<QuizValidator(Q(index) \o "correct_answers must be an array", Error)>>
        ELSE IF Length(correct_answers) = 0
        THEN <<QuizValidator(Q(index) \o "correct_answers cannot be empty", Error)>>
        ELSE CardinalityCheck(question, index)
             \o (IF Truthy(options) /\ IsArray(options)
                 THEN IndexLoop(correct_answers, options, index, 1)
                 ELSE <<>>)
             \o TrueFalseCheck(question, index)

CorrectAnswersCheck(question, index) ==
    LET correct_answers == Get(question, "correct_answers")
        options == Get(question, "options")
    IN  IF ~Truthy(correct_answers)
        THEN <<QuizValidator(Q(index) \o "Missing required property: correct_answers", Error)>>
        ELSE IF correct_answers = Null
        THEN <<QuizValidator(Q(index) \o "correct_answers cannot be null", Error)>>
        ELSE IF ~IsArray(correct_answers)
        THEN <<QuizValidator(Q(index) \o "correct_answers must be an array", Error)>>
        ELSE IF Length(correct_answers) = 0
        THEN <<QuizValidator(Q(index) \o "correct_answers cannot be empty", Error)>>
        ELSE CardinalityCheck(question, index)
             \o (IF Truthy(options) /\ IsArray(options)
                 THEN IndexLoop(correct_answers, options, index, 1)
                      \o TrueFalseCheck(question, index)
                 ELSE <<>>)

\* mutant: the options and correct_answers checks run for every question
TypeGateOpen(question) == TRUE

TypeGate(question) == IncludesType(Get(question, "type"))

\* mutant: correct_answers is checked before options
QuestionChecksAnswersFirst(question, index) ==
    TypeCheck(question, index)
    \o TextCheck(question, index)
    \o (IF TypeGate(question)
        THEN CorrectAnswersCheck(question, index) \o OptionsCheck(question, index)
        ELSE <<>>)

\* the body of the forEach callback, for a question whose properties can be read
QuestionChecks(question, index) ==
    TypeCheck(question, index)
    \o TextCheck(question, index)
    \o (IF TypeGate(question)
        THEN OptionsCheck(question, index) \o CorrectAnswersCheck(question, index)
        ELSE <<>>)

\* questions.forEach(...): the first exception ends the loop
RECURSIVE ForEachQuestion(_, _)
ForEachQuestion(questions, index) ==
    IF index >= Length(questions) THEN Completed(<<>>)
    ELSE LET question == questions.a[index + 1]
         IN  IF ThrowsOnGet(question)
             THEN Thrown(<<>>, TypeErrorMessage(question, "type"))
             ELSE LET rest == ForEachQuestion(questions, index + 1)
                  IN  [rest EXCEPT !.diagnostics =
                                      QuestionChecks(question, index) \o @]

validateQuestions(questions) ==
    IF ~IsArray(questions)
    THEN Completed(<<QuizValidator("questions must be an array", Error)>>)
    ELSE ForEachQuestion(questions, 0)

(***************************************************************************)
(* validateQuizFile                                                        *)
(***************************************************************************)
\* formatSchemaError
formatSchemaError(error) ==
    (IF error.instancePath # "" THEN error.instancePath ELSE "Root")
    \o ": " \o error.message

\* the schema block: validator is the compiled schema (or undefined), with the
\* errors it reports for the value that is being validated
SchemaBlock(validator) ==
    IF validator.loaded
    THEN [i \in 1..Len(validator.errors) |->
             Diagnostic(formatSchemaError(validator.errors[i]), Error, "quiz-schema")]
    ELSE <<>>

\* mutant: the fields of the metadata are checked even when it is absent
MetadataBlockAlways(quiz) ==
    (IF ~Truthy(Get(quiz, "metadata"))
     THEN <<QuizValidator("Missing required property: metadata", Error)>>
     ELSE <<>>)
    \o validateMetadata(Get(quiz, "metadata"))

MetadataBlock(quiz) ==
    IF ~Truthy(Get(quiz, "metadata"))
    THEN <<QuizValidator("Missing required property: metadata", Error)>>
    ELSE validateMetadata(Get(quiz, "metadata"))

\* mutant: validateQuestions is called even when questions is absent
QuestionsBlockNoElse(quiz) ==
    LET rest == validateQuestions(Get(quiz, "questions"))
    IN  IF ~Truthy(Get(quiz, "questions"))
        THEN [rest EXCEPT !.diagnostics =
                 <<QuizValidator("Missing required property: questions", Error)>> \o @]
        ELSE rest

QuestionsBlock(quiz) ==
    IF ~Truthy(Get(quiz, "questions"))
    THEN Completed(<<QuizValidator("Missing required property: questions", Error)>>)
    ELSE validateQuestions(Get(quiz, "questions"))

\* mutant: validate is called without testing that a schema was compiled
TryBlockUnguarded(text, validator) ==
    LET parsed == JSONParse(text)
        quiz == parsed.value
    IN  IF parsed.threw THEN Thrown(<<>>, parsed.error)
        ELSE IF ThrowsOnGet(quiz) THEN Thrown(<<>>, TypeErrorMessage(quiz, "metadata"))
        ELSE LET q == QuestionsBlock(quiz)
             IN  IF q.threw THEN Thrown(MetadataBlock(quiz) \o q.diagnostics, q.error)
                 ELSE IF ~validator.loaded
                 THEN Thrown(MetadataBlock(quiz) \o q.diagnostics,
                             "validate is not a function")
                 ELSE Completed(MetadataBlock(quiz) \o q.diagnostics
                                \o SchemaBlock(validator))

\* the try block
TryBlock(text, validator) ==
    LET parsed == JSONParse(text)
        quiz == parsed.value
    IN  IF parsed.threw THEN Thrown(<<>>, parsed.error)
        ELSE IF ThrowsOnGet(quiz) THEN Thrown(<<>>, TypeErrorMessage(quiz, "metadata"))
        ELSE LET q == QuestionsBlock(quiz)
             IN  IF q.threw THEN Thrown(MetadataBlock(quiz) \o q.diagnostics, q.error)
                 ELSE Completed(MetadataBlock(quiz) \o q.diagnostics
                                \o SchemaBlock(validator))

\* mutant: the parse failure is reported as a warning
CatchBlockWarning(tried) ==
    IF tried.threw
    THEN [diagnostics |-> tried.diagnostics
                          \o <<QuizValidator("Invalid JSON: " \o tried.error, Warning)>>,
          escaped |-> FALSE]
    ELSE [diagnostics |-> tried.diagnostics, escaped |-> FALSE]

\* mutant: only a SyntaxError is handled, any other exception is thrown again
CatchBlockRethrow(tried) ==
    IF tried.threw /\ tried.error \in {"Unexpected end of JSON input",
                                      "Unexpected token i in JSON at position 2"}
    THEN [diagnostics |-> tried.diagnostics
                          \o <<QuizValidator("Invalid JSON: " \o tried.error, Error)>>,
          escaped |-> FALSE]
    ELSE [diagnostics |-> tried.diagnostics, escaped |-> tried.threw]

\* the catch block: every exception of the try block becomes one diagnostic
CatchBlock(tried) ==
    IF tried.threw
    THEN [diagnostics |-> tried.diagnostics
                          \o <<QuizValidator("Invalid JSON: " \o tried.error, Error)>>,
          escaped |-> FALSE]
    ELSE [diagnostics |-> tried.diagnostics, escaped |-> FALSE]

\* the diagnostics validateQuizFile computes for a text
Validation(text, validator) == CatchBlock(TryBlock(text, validator))

NotPublished == [has |-> FALSE, diagnostics |-> <<>>]
Published(diagnostics) == [has |-> TRUE, diagnostics |-> diagnostics]

\* mutant: the new diagnostics are added to those the document already has
validateQuizFileAccumulating(d, document, collection) ==
    IF ~EndsWithQuiz(document.fileName)
    THEN /\ diagnosticCollection' = collection
         /\ UNCHANGED uncaught
    ELSE LET result == Validation(document.text, validate)
         IN  IF result.escaped
             THEN /\ uncaught' = TRUE
                  /\ diagnosticCollection' = collection
             ELSE /\ diagnosticCollection' =
                        [collection EXCEPT ![d] =
                            Published(collection[d].diagnostics \o result.diagnostics)]
                  /\ UNCHANGED uncaught

\* mutant: the array of diagnostics is shared by the calls, so the list of a
\* document starts with what the first document of the collection has
validateQuizFileShared(d, document, collection) ==
    IF ~EndsWithQuiz(document.fileName)
    THEN /\ diagnosticCollection' = collection
         /\ UNCHANGED uncaught
    ELSE LET result == Validation(document.text, validate)
             shared == IF d # 1 THEN collection[1].diagnostics ELSE <<>>
         IN  IF result.escaped
             THEN /\ uncaught' = TRUE
                  /\ diagnosticCollection' = collection
             ELSE /\ diagnosticCollection' =
                        [collection EXCEPT ![d] = Published(shared \o result.diagnostics)]
                  /\ UNCHANGED uncaught

\* mutant: validateQuizFile without the guard on the file name
validateQuizFileUnguarded(d, document, collection) ==
    LET result == Validation(document.text, validate)
    IN  IF result.escaped
        THEN /\ uncaught' = TRUE
             /\ diagnosticCollection' = collection
        ELSE /\ diagnosticCollection' =
                   [collection EXCEPT ![d] = Published(result.diagnostics)]
             /\ UNCHANGED uncaught

\* validateQuizFile(document), for the document whose entry of the collection
\* is d; collection is the diagnostic collection when the call is made
validateQuizFileOf(d, document, collection) ==
    IF ~EndsWithQuiz(document.fileName)
    THEN /\ diagnosticCollection' = collection
         /\ UNCHANGED uncaught
    ELSE LET result == Validation(document.text, validate)
         IN  IF result.escaped
             THEN /\ uncaught' = TRUE
                  /\ diagnosticCollection' = collection
             ELSE /\ diagnosticCollection' =
                        [collection EXCEPT ![d] = Published(result.diagnostics)]
                  /\ UNCHANGED uncaught

\* validateQuizFile(textDocuments[d])
validateQuizFile(d) == validateQuizFileOf(d, textDocuments[d], diagnosticCollection)

(***************************************************************************)
(* Handlers registered by activate().                                      *)
(***************************************************************************)
\* onDidChangeActiveTextEditor: editor 0 is "no editor"
DidChangeActiveTextEditor(editor) ==
    /\ activeTextEditor' = editor
    /\ IF editor # 0 /\ isQuizFile(textDocuments[editor])
       THEN validateQuizFile(editor)
       ELSE UNCHANGED <<diagnosticCollection, uncaught>>
    /\ UNCHANGED <<textDocuments, validate>>

\* quiz-file-support.validateFile
ValidateCommand ==
    /\ IF activeTextEditor # 0 /\ isQuizFile(textDocuments[activeTextEditor])
       THEN validateQuizFile(activeTextEditor)
       ELSE UNCHANGED <<diagnosticCollection, uncaught>>
    /\ UNCHANGED <<textDocuments, activeTextEditor, validate>>

\* quiz-file-support.forceValidate
ForceValidateCommand ==
    /\ IF activeTextEditor # 0
       THEN validateQuizFile(activeTextEditor)
       ELSE UNCHANGED <<diagnosticCollection, uncaught>>
    /\ UNCHANGED <<textDocuments, activeTextEditor, validate>>

\* onDidOpenTextDocument: the document is new in workspace.textDocuments and
\* has no entry in the collection yet
DidOpenTextDocument(document) ==
    /\ textDocuments' =
          Append(textDocuments,
                 IF EndsWithQuiz(document.fileName) /\ document.languageId # "quiz"
                 THEN [document EXCEPT !.languageId = "quiz"]
                 ELSE document)
    /\ IF isQuizFile(document)
       THEN validateQuizFileOf(Len(textDocuments) + 1, document,
                               Append(diagnosticCollection, NotPublished))
       ELSE /\ diagnosticCollection' = Append(diagnosticCollection, NotPublished)
            /\ UNCHANGED uncaught
    /\ UNCHANGED <<activeTextEditor, validate>>

\* mutant: no listener validates a document when its text changes
DidChangeTextDocumentNoValidation(d, text) ==
    /\ textDocuments' = [textDocuments EXCEPT ![d].text = text]
    /\ UNCHANGED <<activeTextEditor, validate, diagnosticCollection, uncaught>>

\* onDidChangeTextDocument: event.document has its new text
DidChangeTextDocument(d, text) ==
    LET document == [textDocuments[d] EXCEPT !.text = text]
    IN  /\ textDocuments' = [textDocuments EXCEPT ![d] = document]
        /\ IF isQuizFile(document)
           THEN validateQuizFileOf(d, document, diagnosticCollection)
           ELSE UNCHANGED <<diagnosticCollection, uncaught>>
        /\ UNCHANGED <<activeTextEditor, validate>>

\* forceDetectOpenQuizFiles, for the document d of textDocuments.forEach:
\* setTextDocumentLanguage changes the language of the document, and the
\* editor then announces the document as opened again, which runs the
\* onDidOpenTextDocument listener on it
ForceDetectOpenQuizFiles(d) ==
    /\ LowerCaseEndsWithQuiz(textDocuments[d].fileName)
    /\ textDocuments[d].languageId # "quiz"
    /\ textDocuments' = [textDocuments EXCEPT ![d].languageId = "quiz"]
    /\ IF isQuizFile(textDocuments[d])
       THEN validateQuizFile(d)
       ELSE UNCHANGED <<diagnosticCollection, uncaught>>
    /\ UNCHANGED <<activeTextEditor, validate>>

(***************************************************************************)
(* The documents the validator is applied to.                              *)
(***************************************************************************)
SeqsUpTo(S, n) == UNION {[1..m -> S] : m \in 0..n}

\* values that are not arrays: absent, falsy and truthy ones
Scalars == {Undefined, Null, Bool(FALSE), IntNum(0), Str(""),
            Bool(TRUE), IntNum(1), Str("x"), EmptyObj}

FieldValues == Scalars \cup {Arr(<<>>)}

\* the values options and correct_answers take when they are not arrays
NonArrays == {Undefined, Null, IntNum(0), Str(""), Str("x"), EmptyObj}

RecognizedTypes == {Str(QuestionTypes[i]) : i \in 1..Len(QuestionTypes)}
UnrecognizedTypes == {Undefined, Null, Str(""), IntNum(1), Str("essay")}
TypeValues == RecognizedTypes \cup UnrecognizedTypes

OptionsOfLen(n) == Arr([i \in 1..n |-> Str("o")])
OptionValues == NonArrays \cup {OptionsOfLen(n) : n \in 0..MaxOptions}

\* -1, 0.5, 0, 1, the length of the longest options, a string and null
AnswerEntries == {Num(-2), Num(1), IntNum(0), IntNum(1), IntNum(MaxOptions), Str("1"), Null}
\* the entries of the arrays of more than 2 answers: -1, 0, 1 and the length
\* of the longest options
LongAnswerEntries == {Num(-2), IntNum(0), IntNum(1), IntNum(MaxOptions)}
AnswerValues ==
    NonArrays
    \cup {Arr(a) : a \in SeqsUpTo(AnswerEntries, 2)}
    \cup {Arr(a) : a \in UNION {[1..m -> LongAnswerEntries] : m \in 3..MaxAnswers}}

GoodMetadata == MetadataObj(Str("x"), Str("x"), Str("x"), Str("x"))
GoodQuestion == QuestionObj(Str("multiple_choice"), Str("x"), OptionsOfLen(2), Arr(<<IntNum(1)>>))

RecognizedQuestions ==
    {QuestionObj(t, Str("x"), o, c) : t \in RecognizedTypes, o \in OptionValues, c \in AnswerValues}

UnrecognizedQuestions ==
    {QuestionObj(t, Str("x"), o, c) :
        t \in UnrecognizedTypes,
        o \in {Undefined, Str("x"), OptionsOfLen(1), OptionsOfLen(2)},
        c \in {Undefined, Null, Str("x"), Arr(<<>>), Arr(<<IntNum(0)>>),
               Arr(<<IntNum(MaxOptions), Num(1)>>)}}

TextQuestions ==
    {QuestionObj(t, x, OptionsOfLen(2), Arr(<<IntNum(0)>>)) : t \in TypeValues, x \in FieldValues}

NonObjectQuestions == {Null, IntNum(1), Str("x"), Bool(TRUE), Arr(<<>>), EmptyObj}

\* questions of documents with several questions
SampleQuestions ==
    {GoodQuestion, Null, EmptyObj,
     QuestionObj(Str("true_false"), Str("x"), OptionsOfLen(2), Arr(<<IntNum(0)>>)),
     QuestionObj(Str("single_choice"), IntNum(1), OptionsOfLen(1),
                 Arr(<<IntNum(0), IntNum(MaxOptions)>>)),
     QuestionObj(Str("true_false"), Str("x"), OptionsOfLen(2), Arr(<<>>)),
     QuestionObj(Str("essay"), Str("x"), Undefined, Undefined)}

\* true_false questions that follow a null element of the array
AfterNullQuestions ==
    {QuestionObj(Str("true_false"), Str("x"), OptionsOfLen(1), Arr(<<IntNum(0)>>)),
     QuestionObj(Str("true_false"), Str("x"), OptionsOfLen(2), Arr(<<IntNum(MaxOptions)>>))}

QuestionLists ==
    {<<q>> : q \in RecognizedQuestions \cup UnrecognizedQuestions
                   \cup TextQuestions \cup NonObjectQuestions}
    \cup {qs \in SeqsUpTo(SampleQuestions, MaxQuestions) : Len(qs) # 1}
    \cup {<<Null, q>> : q \in AfterNullQuestions}

MetadataValues ==
    FieldValues
    \cup {MetadataObj(t, d, v, a) :
            t \in FieldValues,
            d \in {Undefined, Str(""), IntNum(1), Str("x")},
            v \in {Undefined, Str(""), IntNum(1), Str("x")},
            a \in {Undefined, Str(""), IntNum(1), Str("x")}}

QuizValues ==
    {QuizObj(GoodMetadata, Arr(qs)) : qs \in QuestionLists}
    \cup {QuizObj(m, q) : m \in MetadataValues, q \in {Undefined, Arr(<<GoodQuestion>>)}}
    \cup {QuizObj(m, q) : m \in {Undefined, GoodMetadata}, q \in Scalars}
    \cup {QuizObj(Undefined, Arr(<<q>>)) : q \in SampleQuestions}
    \cup {Null, IntNum(1), Str("x"), Bool(TRUE), Arr(<<>>), EmptyObj}

Texts ==
    {ValidText(v) : v \in QuizValues}
    \cup {BrokenText(s) : s \in {"empty", "truncated", "garbage"}}

\* what the compiled schema reports: error i of a run of the validator
SchemaError(i) ==
    IF i % 2 = 1
    THEN [instancePath |-> "", message |-> "must have required property 'metadata'"]
    ELSE [instancePath |-> "/questions/0/type",
          message |-> "must be equal to one of the allowed values"]

\* activate(): no schema file could be loaded, or ajv compiled one
Validators ==
    {[loaded |-> FALSE, errors |-> <<>>]}
    \cup {[loaded |-> TRUE, errors |-> [i \in 1..n |-> SchemaError(i)]] : n \in 0..MaxSchemaErrors}

(***************************************************************************)
(* SpecV: one .quiz document, opened before activation and not yet shown;  *)
(* its text is any text of Texts and the handlers validate it.             *)
(***************************************************************************)
InitV ==
    /\ textDocuments \in
          {<<[fileName |-> FileName("a", ".quiz"), text |-> t, languageId |-> "quiz"]>> :
              t \in Texts}
    /\ activeTextEditor = 0
    /\ validate \in Validators
    /\ diagnosticCollection = <<NotPublished>>
    /\ uncaught = FALSE

NextV ==
    \/ \E editor \in 0..Len(textDocuments) : DidChangeActiveTextEditor(editor)
    \/ ValidateCommand
    \/ ForceValidateCommand

SpecV == InitV /\ [][NextV]_vars

(***************************************************************************)
(* Spec: the extension after activate(), with the documents of the         *)
(* workspace, the events of the editor and the two commands.               *)
(***************************************************************************)
MaxDocuments == 2

FileNames ==
    {FileName("a", ".quiz"), FileName("b", ".quiz"), FileName("n", ".txt"),
     FileName("X", ".QUIZ")}

\* the language the editor gave a document before the extension acts on it:
\* a name in '.quiz' is recognized, one in another case may or may not be
LanguageIds(fileName) ==
    IF EndsWithQuiz(fileName) THEN {"quiz"}
    ELSE IF LowerCaseEndsWithQuiz(fileName) THEN {"plaintext", "quiz"}
    ELSE {"plaintext"}

\* a valid document, one without metadata and with a malformed question, and
\* a truncated text
EventTexts ==
    {ValidText(QuizObj(GoodMetadata, Arr(<<GoodQuestion>>))),
     ValidText(QuizObj(Undefined,
         Arr(<<QuestionObj(Str("single_choice"), IntNum(1), OptionsOfLen(1),
                           Arr(<<IntNum(0), IntNum(2)>>))>>))),
     BrokenText("truncated")}

\* activate(): the schema file is missing, or it is compiled and the
\* validator it gives reports an error
EventValidators ==
    {[loaded |-> FALSE, errors |-> <<>>],
     [loaded |-> TRUE, errors |-> <<SchemaError(1)>>]}

Documents ==
    UNION {{[fileName |-> n, text |-> t, languageId |-> l] :
               t \in EventTexts, l \in LanguageIds(n)} : n \in FileNames}

IsOpen(documents, fileName) ==
    \E d \in 1..Len(documents) : documents[d].fileName = fileName

\* the documents that are open when the extension is activated
OpenDocuments ==
    {ds \in SeqsUpTo(Documents, MaxDocuments) :
        \A i, j \in 1..Len(ds) : ds[i].fileName = ds[j].fileName => i = j}

\* activate(): the collection is created empty, the schema is loaded or not,
\* and the document of the active editor gets the language 'quiz' and is
\* validated when it is a quiz file
Init ==
    /\ textDocuments \in OpenDocuments
    /\ activeTextEditor \in 0..Len(textDocuments)
    /\ activeTextEditor # 0 /\ EndsWithQuiz(textDocuments[activeTextEditor].fileName)
           => textDocuments[activeTextEditor].languageId = "quiz"
    /\ validate \in EventValidators
    /\ diagnosticCollection =
          [d \in 1..Len(textDocuments) |->
              IF d = activeTextEditor /\ isQuizFile(textDocuments[d])
              THEN Published(Validation(textDocuments[d].text, validate).diagnostics)
              ELSE NotPublished]
    /\ uncaught = FALSE

Next ==
    \/ \E document \in Documents :
          /\ Len(textDocuments) < MaxDocuments
          /\ ~IsOpen(textDocuments, document.fileName)
          /\ DidOpenTextDocument(document)
    \/ \E d \in 1..Len(textDocuments) : \E text \in EventTexts :
          DidChangeTextDocument(d, text)
    \/ \E editor \in 0..Len(textDocuments) : DidChangeActiveTextEditor(editor)
    \/ ValidateCommand
    \/ ForceValidateCommand
    \/ \E d \in 1..Len(textDocuments) : ForceDetectOpenQuizFiles(d)

Spec == Init /\ [][Next]_vars

TypeOK ==
    /\ activeTextEditor \in 0..Len(textDocuments)
    /\ uncaught \in BOOLEAN
    /\ Len(diagnosticCollection) = Len(textDocuments)
    /\ validate \in Validators

(***************************************************************************)
(* Vocabulary of the properties.                                           *)
(***************************************************************************)
Docs == 1..Len(textDocuments)
TextOf(d) == textDocuments[d].text
Parses(d) == TextOf(d).syntax = "valid"
ValueOf(d) == TextOf(d).value
HasPublished(d) == diagnosticCollection[d].has
DiagnosticsOf(d) == diagnosticCollection[d].diagnostics

Has(diagnostics, message) ==
    \E i \in 1..Len(diagnostics) : diagnostics[i].message = message

Count(diagnostics, message) ==
    Cardinality({i \in 1..Len(diagnostics) : diagnostics[i].message = message})

StartsWith(message, prefix) ==
    /\ Len(message) >= Len(prefix)
    /\ SubSeq(message, 1, Len(prefix)) = prefix

EndsWith(message, suffix) ==
    /\ Len(message) >= Len(suffix)
    /\ SubSeq(message, Len(message) - Len(suffix) + 1, Len(message)) = suffix

\* the diagnostics whose message starts with prefix, in their order
Starting(diagnostics, prefix) ==
    SelectSeq(diagnostics, LAMBDA x : StartsWith(x.message, prefix))

CountStarting(diagnostics, prefix) == Len(Starting(diagnostics, prefix))

\* the questions of a parsed document, when it has an array of them
HasQuestions(d) ==
    /\ Parses(d)
    /\ ValueOf(d).k = "obj"
    /\ IsArray(Get(ValueOf(d), "questions"))
QuestionsOf(d) == Get(ValueOf(d), "questions").a

IsInteger(v) == v.k = "num" /\ v.h % 2 = 0
NonEmptyString(v) == v.k = "str" /\ v.s # ""

(***************************************************************************)
(* C1. Parse-failure short-circuit: for a text that is not valid JSON the  *)
(* published list is exactly one diagnostic, an Error of the validator     *)
(* whose message is 'Invalid JSON: ' followed by the parser's message;     *)
(* nothing of the structural, rule or schema layers is in the list.        *)
(***************************************************************************)
ParseFailureShortCircuit ==
    \A d \in Docs :
        (HasPublished(d) /\ ~Parses(d)) =>
            /\ Len(DiagnosticsOf(d)) = 1
            /\ DiagnosticsOf(d)[1].severity = Error
            /\ DiagnosticsOf(d)[1].source = "quiz-validator"
            /\ StartsWith(DiagnosticsOf(d)[1].message, "Invalid JSON: ")

\* an unparseable text was validated while the schema validator reports errors
ParseFailureWitness ==
    \E d \in Docs :
        /\ HasPublished(d) /\ ~Parses(d)
        /\ validate.loaded /\ Len(validate.errors) > 0

(***************************************************************************)
(* C2. No exception escapes validateQuizFile, and the document a handler   *)
(* validated has a published (possibly empty) list, whatever its text.     *)
(***************************************************************************)
NoExceptionEscapes ==
    /\ ~uncaught
    /\ \A d \in Docs :
          (d = activeTextEditor /\ isQuizFile(textDocuments[d])) => HasPublished(d)

\* a list was published for a text that parses and makes the try block throw
CaughtTypeErrorWitness ==
    \E d \in Docs :
        /\ HasPublished(d) /\ Parses(d)
        /\ TryBlock(TextOf(d), validate).threw
        /\ ValueOf(d) # Null

(***************************************************************************)
(* C3. No false positives: with no schema validator, a document whose      *)
(* metadata has the four fields as non-empty strings and whose questions   *)
(* are all well formed has an empty published list.                        *)
(***************************************************************************)
OptionCountRule(type, n) == IF type = "true_false" THEN n = 2 ELSE n >= 2
AnswerCountRule(type, n) == IF type = "multiple_choice" THEN n >= 1 ELSE n = 1

WellFormedQuestion(q) ==
    /\ q.k = "obj"
    /\ Get(q, "type") \in RecognizedTypes
    /\ NonEmptyString(Get(q, "text"))
    /\ IsArray(Get(q, "options"))
    /\ OptionCountRule(Get(q, "type").s, Length(Get(q, "options")))
    /\ IsArray(Get(q, "correct_answers"))
    /\ AnswerCountRule(Get(q, "type").s, Length(Get(q, "correct_answers")))
    /\ \A j \in 1..Length(Get(q, "correct_answers")) :
          LET v == Get(q, "correct_answers").a[j]
          IN  /\ IsInteger(v)
              /\ v.h >= 0
              /\ v.h <= 2 * (Length(Get(q, "options")) - 1)

WellFormedMetadata(m) ==
    /\ m.k = "obj"
    /\ \A i \in 1..Len(requiredFields) : NonEmptyString(Get(m, requiredFields[i]))

WellFormedDocument(d) ==
    /\ HasQuestions(d)
    /\ WellFormedMetadata(Get(ValueOf(d), "metadata"))
    /\ \A i \in 1..Len(QuestionsOf(d)) : WellFormedQuestion(QuestionsOf(d)[i])

NoFalsePositives ==
    \A d \in Docs :
        (HasPublished(d) /\ ~validate.loaded /\ WellFormedDocument(d)) =>
            DiagnosticsOf(d) = <<>>

\* a well-formed document with a question whose answers reach the last option
NoFalsePositivesWitness ==
    \E d \in Docs :
        /\ HasPublished(d) /\ ~validate.loaded /\ WellFormedDocument(d)
        /\ \E i \in 1..Len(QuestionsOf(d)) :
              /\ Length(Get(QuestionsOf(d)[i], "correct_answers")) = 2
              /\ Get(QuestionsOf(d)[i], "correct_answers").a[2]
                   = IntNum(Length(Get(QuestionsOf(d)[i], "options")) - 1)

(***************************************************************************)
(* Questions of the published documents.                                   *)
(***************************************************************************)
\* question i (1-based) of document d is an object whose checks are about
IsQuestion(d, i) ==
    /\ HasPublished(d)
    /\ HasQuestions(d)
    /\ i \in 1..Len(QuestionsOf(d))
    /\ QuestionsOf(d)[i].k = "obj"

QuestionIndexes == 1..(MaxQuestions + 1)

TypeIn(q, types) == Get(q, "type").k = "str" /\ Get(q, "type").s \in types
Recognized(q) == TypeIn(q, {"multiple_choice", "single_choice", "true_false"})

\* the prefix "Question i: " of the messages about question i (1-based)
Prefix(i) == "Question " \o ToString(i) \o ": "

ExactlyOneMessage(type) == type \o " questions must have exactly one correct answer"

\* v is a number with 0 <= v < n
InRange(v, n) == v.k = "num" /\ v.h >= 0 /\ v.h < 2 * n

(***************************************************************************)
(* C4. An empty list means a valid document: with no schema validator, a   *)
(* parsed document with an empty published list has, in every question, a  *)
(* non-empty array correct_answers of integers in [0, len(options)-1], of   *)
(* exactly one element for single_choice and true_false.                   *)
(***************************************************************************)
EmptyMeansValid ==
    \A d \in Docs :
        (HasPublished(d) /\ ~validate.loaded /\ Parses(d) /\ DiagnosticsOf(d) = <<>>) =>
            /\ HasQuestions(d)
            /\ \A i \in 1..Len(QuestionsOf(d)) :
                  LET q == QuestionsOf(d)[i]
                      ca == Get(q, "correct_answers")
                      options == Get(q, "options")
                  IN  /\ IsArray(ca) /\ IsArray(options)
                      /\ Length(ca) >= 1
                      /\ TypeIn(q, {"single_choice", "true_false"}) => Length(ca) = 1
                      /\ \A j \in 1..Length(ca) :
                            IsInteger(ca.a[j]) /\ InRange(ca.a[j], Length(options))

(***************************************************************************)
(* C5. Range invariant: for a question of a recognized type whose options  *)
(* is an array and whose correct_answers is a non-empty array, the         *)
(* 'invalid index' errors of the question are, in entry order, one for     *)
(* each entry that is not a number in [0, len(options)-1], quoting the     *)
(* entry and the range, and none for the other entries.                    *)
(***************************************************************************)
InvalidIndexMessage(i, v, options) ==
    Prefix(i) \o "correct_answers contains invalid index " \o JSString(v)
    \o ". Valid range: 0-" \o ToString(Length(options) - 1)

RangeInvariant ==
    \A d \in Docs : \A i \in QuestionIndexes :
        LET q == QuestionsOf(d)[i]
            ca == Get(q, "correct_answers")
            options == Get(q, "options")
            bad == SelectSeq(ca.a, LAMBDA v : ~InRange(v, Length(options)))
            reported == Starting(DiagnosticsOf(d),
                                 Prefix(i) \o "correct_answers contains invalid index ")
        IN  (IsQuestion(d, i) /\ Recognized(q) /\ IsArray(options)
               /\ IsArray(ca) /\ Length(ca) > 0) =>
                /\ Len(reported) = Len(bad)
                /\ \A j \in 1..Len(reported) :
                      /\ reported[j].message = InvalidIndexMessage(i, bad[j], options)
                      /\ reported[j].severity = Error

NullIsNotMissing ==
    \A d \in Docs : \A i \in QuestionIndexes :
        LET q == QuestionsOf(d)[i]
            missing == Has(DiagnosticsOf(d),
                           Prefix(i) \o "Missing required property: correct_answers")
        IN  (IsQuestion(d, i) /\ Recognized(q)) =>
                /\ (Get(q, "correct_answers") = Null) =>
                      /\ Has(DiagnosticsOf(d), Prefix(i) \o "correct_answers cannot be null")
                      /\ ~missing
                /\ missing => Get(q, "correct_answers") = Undefined

(***************************************************************************)
(* C8, as claimed. Type validity does not gate the field checks: a         *)
(* question whose type is missing or unrecognized has the options,         *)
(* correct_answers and index-range errors the same question has with a     *)
(* recognized type (multiple_choice, which adds no error of its own).      *)
(***************************************************************************)
Retyped(q, type) == [q EXCEPT !.p["type"] = Str(type)]

TypeDoesNotGateFieldChecks ==
    \A d \in Docs : \A i \in QuestionIndexes :
        LET q == QuestionsOf(d)[i]
            expected == SelectSeq(
                OptionsCheck(Retyped(q, "multiple_choice"), i - 1)
                \o CorrectAnswersCheck(Retyped(q, "multiple_choice"), i - 1),
                LAMBDA x : x.severity = Error)
        IN  (IsQuestion(d, i) /\ ~Recognized(q)) =>
                \A j \in 1..Len(expected) : Has(DiagnosticsOf(d), expected[j].message)

(***************************************************************************)
(* C8, amended. Type validity gates the field checks: the only diagnostics *)
(* of a question whose type is missing or unrecognized are those of its    *)
(* type and of its text; it has no options, correct_answers or index-range *)
(* diagnostic.                                                             *)
(***************************************************************************)
TypeGatesFieldChecks ==
    \A d \in Docs : \A i \in QuestionIndexes :
        LET reported == Starting(DiagnosticsOf(d), Prefix(i))
        IN  (HasPublished(d) /\ HasQuestions(d) /\ i <= Len(QuestionsOf(d))
               /\ ~Recognized(QuestionsOf(d)[i])) =>
                \A j \in 1..Len(reported) :
                    \/ reported[j].message = Prefix(i) \o "Missing required property: type"
                    \/ StartsWith(reported[j].message, Prefix(i) \o "Invalid question type '")
                    \/ reported[j].message = Prefix(i) \o "Missing required property: text"
                    \/ reported[j].message = Prefix(i) \o "text must be a string"

\* a question of type 'essay' without options and with answers out of any
\* range, whose only diagnostic is the one of its type
TypeGateWitness ==
    \E d \in Docs : \E i \in QuestionIndexes :
        /\ IsQuestion(d, i)
        /\ Get(QuestionsOf(d)[i], "type") = Str("essay")
        /\ Get(QuestionsOf(d)[i], "options") = Undefined
        /\ Get(QuestionsOf(d)[i], "correct_answers") = Arr(<<IntNum(MaxOptions), Num(1)>>)
        /\ Starting(DiagnosticsOf(d), Prefix(i)) =
              <<QuizValidator(Prefix(i) \o "Invalid question type 'essay'. "
                    \o "Supported types: multiple_choice, single_choice, true_false", Error)>>

(***************************************************************************)
(* C9. Presence versus type: for the four metadata fields and for the text *)
(* of a question, 'Missing required property' is reported only for an      *)
(* absent key, and a key present with a value that is not a string is      *)
(* reported as '<field> must be a string'.                                 *)
(***************************************************************************)
PresenceVersusType ==
    /\ \A d \in Docs : \A f \in {"title", "description", "version", "author"} :
          LET v == Get(Get(ValueOf(d), "metadata"), f)
          IN  (HasPublished(d) /\ Parses(d) /\ ValueOf(d).k = "obj"
                 /\ Get(ValueOf(d), "metadata").k = "obj") =>
                  /\ Has(DiagnosticsOf(d), "Missing required property: metadata." \o f)
                        => v = Undefined
                  /\ (v # Undefined /\ v.k # "str")
                        => Has(DiagnosticsOf(d), "metadata." \o f \o " must be a string")
    /\ \A d \in Docs : \A i \in QuestionIndexes :
          LET v == Get(QuestionsOf(d)[i], "text")
          IN  IsQuestion(d, i) =>
                  /\ Has(DiagnosticsOf(d), Prefix(i) \o "Missing required property: text")
                        => v = Undefined
                  /\ (v # Undefined /\ v.k # "str")
                        => Has(DiagnosticsOf(d), Prefix(i) \o "text must be a string")

(***************************************************************************)
(* C10. Mutual exclusion: no published list holds, for one field of the    *)
(* document or of one question, both its 'Missing required property'       *)
(* diagnostic and a type or shape diagnostic ('must be a string', 'must be *)
(* an array', 'Invalid question type', 'cannot be null').                  *)
(***************************************************************************)
MutualExclusion ==
    \A d \in Docs :
        LET ds == DiagnosticsOf(d)
        IN  /\ \A f \in {"title", "description", "version", "author"} :
                  ~ /\ Has(ds, "Missing required property: metadata." \o f)
                    /\ Has(ds, "metadata." \o f \o " must be a string")
            /\ ~ /\ Has(ds, "Missing required property: questions")
                 /\ Has(ds, "questions must be an array")
            /\ \A i \in QuestionIndexes :
                  /\ ~ /\ Has(ds, Prefix(i) \o "Missing required property: type")
                       /\ CountStarting(ds, Prefix(i) \o "Invalid question type") > 0
                  /\ ~ /\ Has(ds, Prefix(i) \o "Missing required property: text")
                       /\ Has(ds, Prefix(i) \o "text must be a string")
                  /\ ~ /\ Has(ds, Prefix(i) \o "Missing required property: options")
                       /\ Has(ds, Prefix(i) \o "options must be an array")
                  /\ ~ /\ Has(ds, Prefix(i) \o "Missing required property: correct_answers")
                       /\ \/ Has(ds, Prefix(i) \o "correct_answers cannot be null")
                          \/ Has(ds, Prefix(i) \o "correct_answers must be an array")

\* one list with a missing-property diagnostic of one metadata field and a
\* type diagnostic of another, for a title that is the number 0
MutualExclusionWitness ==
    \E d \in Docs :
        /\ HasPublished(d) /\ Parses(d)
        /\ Get(Get(ValueOf(d), "metadata"), "title") = IntNum(0)
        /\ Has(DiagnosticsOf(d), "Missing required property: metadata.title")
        /\ Has(DiagnosticsOf(d), "metadata.description must be a string")

(***************************************************************************)
(* C11. Absent metadata: when the parsed document has no metadata key, the *)
(* list starts with the Error 'Missing required property: metadata' of the *)
(* validator, which is the only diagnostic of the validator that mentions  *)
(* metadata (no 'metadata.<field>' diagnostic), and the questions are      *)
(* still validated: the rest of the list is the list of the same document  *)
(* with a well-formed metadata.                                            *)
(***************************************************************************)
Contains(message, part) ==
    \E i \in 1..(Len(message) - Len(part) + 1) :
        SubSeq(message, i, i + Len(part) - 1) = part

FromValidator(diagnostics) ==
    SelectSeq(diagnostics, LAMBDA x : x.source = "quiz-validator")

WithMetadata(quiz, metadata) == [quiz EXCEPT !.p["metadata"] = metadata]

AbsentMetadata ==
    \A d \in Docs :
        (HasPublished(d) /\ Parses(d) /\ ValueOf(d).k = "obj"
           /\ Get(ValueOf(d), "metadata") = Undefined) =>
            /\ Len(DiagnosticsOf(d)) >= 1
            /\ DiagnosticsOf(d)[1] =
                  QuizValidator("Missing required property: metadata", Error)
            /\ Len(SelectSeq(FromValidator(DiagnosticsOf(d)),
                             LAMBDA x : Contains(x.message, "metadata"))) = 1
            /\ Tail(DiagnosticsOf(d)) =
                  Validation(ValidText(WithMetadata(ValueOf(d), GoodMetadata)),
                             validate).diagnostics

\* a document without metadata whose first question has a diagnostic of its own
AbsentMetadataWitness ==
    \E d \in Docs :
        /\ HasPublished(d) /\ HasQuestions(d)
        /\ Get(ValueOf(d), "metadata") = Undefined
        /\ Has(DiagnosticsOf(d), "Missing required property: metadata")
        /\ Has(DiagnosticsOf(d), Prefix(1) \o "text must be a string")

(***************************************************************************)
(* C12. Questions absent or not an array: for a parsed document whose      *)
(* properties can be read and whose questions is not an array, exactly one *)
(* diagnostic of the validator is about questions, the Error 'Missing      *)
(* required property: questions' (always the one of an absent key) or the  *)
(* Error 'questions must be an array', and no message starts with          *)
(* 'Question '.                                                            *)
(***************************************************************************)
QuestionsNotAnArray ==
    \A d \in Docs :
        (HasPublished(d) /\ Parses(d) /\ ~ThrowsOnGet(ValueOf(d))
           /\ ~IsArray(Get(ValueOf(d), "questions"))) =>
            LET about == SelectSeq(FromValidator(DiagnosticsOf(d)),
                                   LAMBDA x : Contains(x.message, "questions"))
            IN  /\ Len(about) = 1
                /\ about[1].severity = Error
                /\ about[1].message \in {"Missing required property: questions",
                                         "questions must be an array"}
                /\ (Get(ValueOf(d), "questions") = Undefined) =>
                      about[1].message = "Missing required property: questions"
                /\ CountStarting(DiagnosticsOf(d), "Question ") = 0

\* a document whose questions is an object, reported as not being an array
QuestionsNotAnArrayWitness ==
    \E d \in Docs :
        /\ HasPublished(d) /\ Parses(d) /\ ValueOf(d).k = "obj"
        /\ Get(ValueOf(d), "questions") = EmptyObj
        /\ Has(DiagnosticsOf(d), "questions must be an array")

(***************************************************************************)
(* C13. true_false option count: a true_false question whose options is an *)
(* array of a length other than 2 has the Error 'true_false questions must *)
(* have exactly 2 options'; a true_false question with a non-empty string  *)
(* text, 2 options and correct_answers [0] or [1] has no Error.            *)
(***************************************************************************)
TrueFalseOptionCount ==
    \A d \in Docs : \A i \in QuestionIndexes :
        LET q == QuestionsOf(d)[i]
            options == Get(q, "options")
            errors == SelectSeq(Starting(DiagnosticsOf(d), Prefix(i)),
                                LAMBDA x : x.severity = Error)
        IN  (IsQuestion(d, i) /\ Get(q, "type") = Str("true_false")) =>
                /\ (IsArray(options) /\ Length(options) # 2) =>
                      \E j \in 1..Len(errors) :
                          errors[j].message =
                              Prefix(i) \o "true_false questions must have exactly 2 options"
                /\ (NonEmptyString(Get(q, "text"))
                       /\ IsArray(options) /\ Length(options) = 2
                       /\ Get(q, "correct_answers")
                             \in {Arr(<<IntNum(0)>>), Arr(<<IntNum(1)>>)}) =>
                      errors = <<>>

(***************************************************************************)
(* C14. Severity rule: question i has the Warning '<type> questions must   *)
(* have at least 2 options' exactly when its type is multiple_choice or    *)
(* single_choice and its options is an array of fewer than 2 elements, and *)
(* it then has no Error about options; every other diagnostic of every     *)
(* list has severity Error.                                                *)
(***************************************************************************)
AtLeastTwoMessage(i, type) == Prefix(i) \o type \o " questions must have at least 2 options"

SeverityRule ==
    \A d \in Docs :
        /\ \A i \in QuestionIndexes :
              LET q == QuestionsOf(d)[i]
                  few == /\ TypeIn(q, {"multiple_choice", "single_choice"})
                         /\ IsArray(Get(q, "options"))
                         /\ Length(Get(q, "options")) < 2
                  aboutOptions == SelectSeq(Starting(DiagnosticsOf(d), Prefix(i)),
                                            LAMBDA x : Contains(x.message, "options"))
              IN  IsQuestion(d, i) =>
                      /\ few <=> \E j \in 1..Len(aboutOptions) :
                                     aboutOptions[j].severity = Warning
                      /\ few => /\ Len(aboutOptions) = 1
                                /\ aboutOptions[1] =
                                      QuizValidator(AtLeastTwoMessage(i, Get(q, "type").s),
                                                    Warning)
        /\ \A j \in 1..Len(DiagnosticsOf(d)) :
              \/ DiagnosticsOf(d)[j].severity = Error
              \/ /\ DiagnosticsOf(d)[j].severity = Warning
                 /\ \E i \in QuestionIndexes : \E t \in {"multiple_choice", "single_choice"} :
                        DiagnosticsOf(d)[j].message = AtLeastTwoMessage(i, t)

(***************************************************************************)
(* C15, as claimed. true_false index domain: a true_false question whose   *)
(* correct_answers is an array of exactly one element v that is neither 0  *)
(* nor 1 has the Error 'true_false questions must have correct_answers     *)
(* index 0 or 1', and the 'invalid index v' Error too when v is outside    *)
(* [0, len(options)-1]; it has not the Error when v is 0 or 1 or when the  *)
(* number of answers is not 1.                                             *)
(***************************************************************************)
DomainMessage(i) == Prefix(i) \o "true_false questions must have correct_answers index 0 or 1"

Aggregation ==
    \A d \in Docs :
        (HasPublished(d) /\ Parses(d)) =>
            LET metadata == MetadataBlock(ValueOf(d))
                questions == QuestionsBlock(ValueOf(d)).diagnostics
                schema == SchemaBlock(validate)
            IN  /\ DiagnosticsOf(d) = metadata \o questions \o schema
                /\ Len(DiagnosticsOf(d)) = Len(metadata) + Len(questions) + Len(schema)

(***************************************************************************)
(* C17. Rule-engine ordering: every 'Question n: ' diagnostic is about an  *)
(* element n (1-based) of the array; the diagnostics of question i precede *)
(* those of question j for i < j; within a question they are in the order  *)
(* of the stages type, text, options, correct_answers shape, cardinality,  *)
(* index range, true_false domain, with at most one diagnostic per stage   *)
(* but for the index range, whose diagnostics are in the order of the      *)
(* entries.  A cardinality Error and an index-range Error can be reported  *)
(* for the same question (the witness).                                    *)
(***************************************************************************)
QuestionNumber(message) ==
    IF \E i \in QuestionIndexes : StartsWith(message, Prefix(i))
    THEN CHOOSE i \in QuestionIndexes : StartsWith(message, Prefix(i))
    ELSE 0

Stage(message) ==
    LET p == Prefix(QuestionNumber(message))
    IN  CASE message = p \o "Missing required property: type" -> 1
          [] StartsWith(message, p \o "Invalid question type '") -> 1
          [] message = p \o "Missing required property: text" -> 2
          [] message = p \o "text must be a string" -> 2
          [] message = p \o "Missing required property: options" -> 3
          [] message = p \o "options must be an array" -> 3
          [] EndsWith(message, " questions must have exactly 2 options") -> 3
          [] EndsWith(message, " questions must have at least 2 options") -> 3
          [] message = p \o "Missing required property: correct_answers" -> 4
          [] message = p \o "correct_answers cannot be null" -> 4
          [] message = p \o "correct_answers must be an array" -> 4
          [] message = p \o "correct_answers cannot be empty" -> 4
          [] EndsWith(message, " questions must have exactly one correct answer") -> 5
          [] StartsWith(message, p \o "correct_answers contains invalid index ") -> 6
          [] message = p \o "true_false questions must have correct_answers index 0 or 1" -> 7
          [] OTHER -> 0

RuleEngineOrdering ==
    \A d \in Docs :
        LET ofQuestions == Starting(DiagnosticsOf(d), "Question ")
        IN  HasPublished(d) =>
            /\ \A a \in 1..Len(ofQuestions) :
                  /\ HasQuestions(d)
                  /\ QuestionNumber(ofQuestions[a].message) \in 1..Len(QuestionsOf(d))
                  /\ Stage(ofQuestions[a].message) # 0
            /\ \A a \in 1..(Len(ofQuestions) - 1) :
                  LET x == ofQuestions[a].message
                      y == ofQuestions[a + 1].message
                  IN  \/ QuestionNumber(x) < QuestionNumber(y)
                      \/ /\ QuestionNumber(x) = QuestionNumber(y)
                         /\ \/ Stage(x) < Stage(y)
                            \/ Stage(x) = 6 /\ Stage(y) = 6
            /\ \A i \in QuestionIndexes :
                  LET reported == Starting(DiagnosticsOf(d),
                                      Prefix(i) \o "correct_answers contains invalid index ")
                      q == QuestionsOf(d)[i]
                      options == Get(q, "options")
                      bad == SelectSeq(Get(q, "correct_answers").a,
                                       LAMBDA v : ~InRange(v, Length(options)))
                  IN  Len(reported) > 0 =>
                          /\ Len(reported) = Len(bad)
                          /\ \A j \in 1..Len(bad) :
                                reported[j].message = InvalidIndexMessage(i, bad[j], options)

\* the second question of a document has, after the diagnostics of the first
\* one, a text, an options, a cardinality and an index-range diagnostic
RuleEngineOrderingWitness ==
    \E d \in Docs :
        /\ HasPublished(d) /\ HasQuestions(d)
        /\ CountStarting(DiagnosticsOf(d), Prefix(1)) > 0
        /\ LET second == Starting(DiagnosticsOf(d), Prefix(2))
           IN  /\ Len(second) = 4
               /\ second[1].message = Prefix(2) \o "text must be a string"
               /\ second[2].message = AtLeastTwoMessage(2, "single_choice")
               /\ second[3].message = Prefix(2) \o ExactlyOneMessage("single_choice")
               /\ StartsWith(second[4].message,
                             Prefix(2) \o "correct_answers contains invalid index ")

(***************************************************************************)
(* C18. Schema independence: for a text that parses, the diagnostics of    *)
(* the validator (structural and rule-engine, content and order) are the   *)
(* list the same text yields when no schema could be loaded; when no       *)
(* schema is loaded the published list holds nothing else, and it holds    *)
(* no diagnostic about the missing schema.                                 *)
(***************************************************************************)
NoSchema == [loaded |-> FALSE, errors |-> <<>>]

SchemaIndependence ==
    \A d \in Docs :
        (HasPublished(d) /\ Parses(d)) =>
            /\ FromValidator(DiagnosticsOf(d)) =
                  Validation(TextOf(d), NoSchema).diagnostics
            /\ ~validate.loaded =>
                  /\ DiagnosticsOf(d) = FromValidator(DiagnosticsOf(d))
                  /\ ~ThrowsOnGet(ValueOf(d)) =>
                        \E n \in 0..Len(DiagnosticsOf(d)) :
                            SubSeq(DiagnosticsOf(d), 1, n) =
                                MetadataBlock(ValueOf(d))
                                \o QuestionsBlock(ValueOf(d)).diagnostics
            /\ \A j \in 1..Len(DiagnosticsOf(d)) :
                  ~Contains(DiagnosticsOf(d)[j].message, "validate")

\* a list with diagnostics of the validator followed by one of the schema
SchemaIndependenceWitness ==
    \E d \in Docs :
        /\ HasPublished(d) /\ Parses(d)
        /\ validate.loaded
        /\ Len(FromValidator(DiagnosticsOf(d))) >= 2
        /\ Len(DiagnosticsOf(d)) > Len(FromValidator(DiagnosticsOf(d)))

(***************************************************************************)
(* C19. Sibling independence: in a document with an array of questions,    *)
(* the diagnostics of question j are, but for the number in their prefix,  *)
(* those the question has as the only question of a document, whatever the *)
(* other elements of the array are, and the diagnostics of the schema      *)
(* validator are all in the list.                                          *)
(***************************************************************************)
\* the diagnostics of question i, without the prefix 'Question i: '
Bodies(diagnostics, i) ==
    LET ofQuestion == Starting(diagnostics, Prefix(i))
    IN  [j \in 1..Len(ofQuestion) |->
            [ofQuestion[j] EXCEPT !.message =
                SubSeq(@, Len(Prefix(i)) + 1, Len(@))]]

Alone(question) == ValidText(QuizObj(GoodMetadata, Arr(<<question>>)))

SiblingIndependence ==
    \A d \in Docs :
        (HasPublished(d) /\ HasQuestions(d)) =>
            /\ \A j \in 1..Len(QuestionsOf(d)) :
                  Bodies(DiagnosticsOf(d), j) =
                      Bodies(Validation(Alone(QuestionsOf(d)[j]), validate).diagnostics, 1)
            /\ SelectSeq(DiagnosticsOf(d), LAMBDA x : x.source = "quiz-schema") =
                  SchemaBlock(validate)

(***************************************************************************)
(* C20. No cross-call accumulation: every step leaves the entry of a       *)
(* document as it was or replaces it by exactly the list the validation of *)
(* the text the document then has produces; a step changes the entry of    *)
(* one document at most, and that document is a .quiz document.  Nothing   *)
(* of the list the entry held before, and nothing of the validation of     *)
(* another document, is in the new list.                                   *)
(***************************************************************************)
EntryBefore(d) ==
    IF d <= Len(diagnosticCollection) THEN diagnosticCollection[d] ELSE NotPublished

NoAccumulationStep ==
    /\ Len(diagnosticCollection') = Len(textDocuments')
    /\ \A d \in 1..Len(diagnosticCollection') :
          \/ diagnosticCollection'[d] = EntryBefore(d)
          \/ /\ EndsWithQuiz(textDocuments'[d].fileName)
             /\ diagnosticCollection'[d] =
                   Published(Validation(textDocuments'[d].text, validate').diagnostics)
    /\ \A d, e \in 1..Len(diagnosticCollection') :
          (diagnosticCollection'[d] # EntryBefore(d)
             /\ diagnosticCollection'[e] # EntryBefore(e)) => d = e

NoAccumulation == [][NoAccumulationStep]_vars

\* two .quiz documents have been validated, the first one with a text that
\* has other diagnostics than the text of the second one, and each entry is
\* the list of its own text
NoAccumulationWitness ==
    /\ Len(textDocuments) = 2
    /\ \A d \in Docs : isQuizFile(textDocuments[d]) /\ HasPublished(d)
    /\ DiagnosticsOf(1) # <<>> /\ DiagnosticsOf(2) # <<>>
    /\ DiagnosticsOf(1) # DiagnosticsOf(2)
    /\ \A d \in Docs :
          DiagnosticsOf(d) = Validation(TextOf(d), validate).diagnostics

(***************************************************************************)
(* C21. Idempotence: with the same schema validator, the same text always  *)
(* has the same list.  A step that leaves the text of a validated document *)
(* as it is leaves its list as it is (same length, order, messages,        *)
(* severities and sources), whatever the step validates, and two validated *)
(* documents with the same text have the same list, whatever was validated *)
(* between their validations.                                              *)
(***************************************************************************)
IdempotenceStep ==
    /\ \A d \in 1..Len(textDocuments) :
          (diagnosticCollection[d].has
             /\ textDocuments'[d].text = textDocuments[d].text) =>
              diagnosticCollection'[d] = diagnosticCollection[d]
    /\ \A d, e \in 1..Len(textDocuments') :
          (diagnosticCollection'[d].has /\ diagnosticCollection'[e].has
             /\ textDocuments'[d].text = textDocuments'[e].text) =>
              diagnosticCollection'[d] = diagnosticCollection'[e]

Idempotence == [][IdempotenceStep]_vars

\* two documents with the same text were validated and have the same list of
\* several diagnostics
IdempotenceWitness ==
    \E d, e \in Docs :
        /\ d # e
        /\ HasPublished(d) /\ HasPublished(e)
        /\ TextOf(d) = TextOf(e)
        /\ Len(DiagnosticsOf(d)) >= 2
        /\ DiagnosticsOf(d) = DiagnosticsOf(e)

(***************************************************************************)
(* C22. Duplicate answers are accepted: a multiple_choice question with a  *)
(* non-empty string text, 2 or more options and correct_answers made of    *)
(* in-range indexes, repeated or not, has no diagnostic; and the           *)
(* diagnostics of a multiple_choice question are those the question has in *)
(* the same document with one of its in-range indexes repeated.            *)
(***************************************************************************)
\* the document with v added to the correct_answers of its question i
WithRepeatedAnswer(quiz, i, v) ==
    [quiz EXCEPT !.p["questions"].a[i].p["correct_answers"].a = Append(@, v)]

DuplicatesAccepted ==
    \A d \in Docs : \A i \in QuestionIndexes :
        LET q == QuestionsOf(d)[i]
            ca == Get(q, "correct_answers")
            options == Get(q, "options")
        IN  (IsQuestion(d, i) /\ Get(q, "type") = Str("multiple_choice")
               /\ IsArray(options) /\ IsArray(ca)) =>
                /\ (NonEmptyString(Get(q, "text")) /\ Length(options) >= 2
                       /\ Length(ca) >= 1
                       /\ \A j \in 1..Length(ca) :
                              IsInteger(ca.a[j]) /\ InRange(ca.a[j], Length(options))) =>
                      Starting(DiagnosticsOf(d), Prefix(i)) = <<>>
                /\ \A j \in 1..Length(ca) :
                      InRange(ca.a[j], Length(options)) =>
                          Starting(Validation(ValidText(WithRepeatedAnswer(ValueOf(d), i, ca.a[j])),
                                              validate).diagnostics, Prefix(i))
                              = Starting(DiagnosticsOf(d), Prefix(i))

\* a multiple_choice question with the answers [1, 1] and no diagnostic, in a
\* list that is empty
DuplicatesAcceptedWitness ==
    \E d \in Docs : \E i \in QuestionIndexes :
        /\ IsQuestion(d, i)
        /\ Get(QuestionsOf(d)[i], "type") = Str("multiple_choice")
        /\ Get(QuestionsOf(d)[i], "options") = OptionsOfLen(2)
        /\ Get(QuestionsOf(d)[i], "correct_answers") = Arr(<<IntNum(1), IntNum(1)>>)
        /\ ~validate.loaded
        /\ DiagnosticsOf(d) = <<>>

(***************************************************************************)
(* C23. Schema layer output: for a text that parses, with a schema         *)
(* validator loaded, the diagnostics of source 'quiz-schema' are one per   *)
(* error the validator reports, in their order, each an Error with the     *)
(* message '<instancePath>: <message>', 'Root' standing for an empty       *)
(* instancePath; there is none when the validator reports no error, and no *)
(* other diagnostic has that source.                                       *)
(***************************************************************************)
FromSchema(diagnostics) ==
    SelectSeq(diagnostics, LAMBDA x : x.source = "quiz-schema")

SchemaMessage(error) ==
    IF error.instancePath = ""
    THEN "Root: " \o error.message
    ELSE error.instancePath \o ": " \o error.message

SchemaLayerOutput ==
    \A d \in Docs :
        (HasPublished(d) /\ Parses(d)) =>
            LET schema == FromSchema(DiagnosticsOf(d))
                others == Len(DiagnosticsOf(d)) - Len(schema)
            IN  /\ ~validate.loaded => schema = <<>>
                /\ validate.loaded =>
                      /\ Len(schema) = Len(validate.errors)
                      /\ \A j \in 1..Len(schema) :
                            /\ schema[j].severity = Error
                            /\ schema[j].message = SchemaMessage(validate.errors[j])
                /\ \A j \in 1..Len(DiagnosticsOf(d)) :
                      /\ DiagnosticsOf(d)[j].source \in {"quiz-validator", "quiz-schema"}
                      /\ (DiagnosticsOf(d)[j].source = "quiz-schema") <=> (j > others)

(***************************************************************************)
(* C24, as claimed. A document with a valid metadata and one question of   *)
(* type 'true_false' with a string text, two options and correct_answers   *)
(* [0] has at least one Error diagnostic.                                  *)
(***************************************************************************)
TrueFalseDocument(d) ==
    /\ HasPublished(d) /\ HasQuestions(d)
    /\ WellFormedMetadata(Get(ValueOf(d), "metadata"))
    /\ Len(QuestionsOf(d)) = 1
    /\ QuestionsOf(d)[1].k = "obj"
    /\ Get(QuestionsOf(d)[1], "type") = Str("true_false")
    /\ NonEmptyString(Get(QuestionsOf(d)[1], "text"))
    /\ Get(QuestionsOf(d)[1], "options") = OptionsOfLen(2)
    /\ Get(QuestionsOf(d)[1], "correct_answers") = Arr(<<IntNum(0)>>)

ShapeMessages(i) ==
    {Prefix(i) \o "Missing required property: correct_answers",
     Prefix(i) \o "correct_answers cannot be null",
     Prefix(i) \o "correct_answers must be an array",
     Prefix(i) \o "correct_answers cannot be empty"}

ShapeGating ==
    \A d \in Docs : \A i \in QuestionIndexes :
        LET ofQuestion == Starting(DiagnosticsOf(d), Prefix(i))
            shape == SelectSeq(ofQuestion, LAMBDA x : x.message \in ShapeMessages(i))
        IN  /\ Len(shape) <= 1
            /\ Len(shape) = 1 =>
                  \A j \in 1..Len(ofQuestion) :
                      /\ ~EndsWith(ofQuestion[j].message,
                                   " questions must have exactly one correct answer")
                      /\ ~Contains(ofQuestion[j].message, "invalid index")
                      /\ ofQuestion[j].message # DomainMessage(i)

\* a true_false question with 2 options and an empty correct_answers, whose
\* only diagnostic is 'correct_answers cannot be empty'
ShapeGatingWitness ==
    \E d \in Docs : \E i \in QuestionIndexes :
        /\ IsQuestion(d, i)
        /\ Get(QuestionsOf(d)[i], "type") = Str("true_false")
        /\ Get(QuestionsOf(d)[i], "options") = OptionsOfLen(2)
        /\ Get(QuestionsOf(d)[i], "correct_answers") = Arr(<<>>)
        /\ Starting(DiagnosticsOf(d), Prefix(i)) =
              <<QuizValidator(Prefix(i) \o "correct_answers cannot be empty", Error)>>

(***************************************************************************)
(* C27. 'Invalid JSON' is for parse failures only: the list of a text that *)
(* parses has no diagnostic whose message starts with 'Invalid JSON', and  *)
(* a list that has such a diagnostic has no other diagnostic.              *)
(***************************************************************************)
InvalidJSONOnlyForParseFailure ==
    \A d \in Docs :
        HasPublished(d) =>
            /\ Parses(d) => CountStarting(DiagnosticsOf(d), "Invalid JSON") = 0
            /\ CountStarting(DiagnosticsOf(d), "Invalid JSON") > 0 =>
                  Len(DiagnosticsOf(d)) = 1

(***************************************************************************)
(* C26  Real-time refresh.  After a document-open, text-change or          *)
(* active-editor-change event for a document whose name ends in '.quiz',   *)
(* and after a validate command on such a document, the published list of  *)
(* the document is the validation of the text the document has at that     *)
(* event: no event leaves an older result in place.                        *)
(***************************************************************************)
\* after the step, the entry of document d is the validation of its text
Refreshed(d) ==
    diagnosticCollection'[d] =
        Published(Validation(textDocuments'[d].text, validate').diagnostics)

RealTimeRefreshStep ==
    /\ \A document \in Documents :
          EndsWithQuiz(document.fileName) /\ DidOpenTextDocument(document)
              => Refreshed(Len(textDocuments'))
    /\ \A d \in Docs :
          EndsWithQuiz(textDocuments[d].fileName)
          /\ DidChangeTextDocument(d, textDocuments'[d].text)
              => Refreshed(d)
    /\ \A editor \in Docs :
          EndsWithQuiz(textDocuments[editor].fileName)
          /\ DidChangeActiveTextEditor(editor)
              => Refreshed(editor)
    /\ activeTextEditor # 0
       /\ EndsWithQuiz(textDocuments[activeTextEditor].fileName)
       /\ (ValidateCommand \/ ForceValidateCommand)
           => Refreshed(activeTextEditor)

RealTimeRefresh == [][RealTimeRefreshStep]_vars

\* a quiz document that is not in the active editor, so that its list was
\* published by an event on it, holds the diagnostics of the text it has now
RealTimeRefreshWitness ==
    \E d \in Docs :
        /\ d # activeTextEditor
        /\ EndsWithQuiz(textDocuments[d].fileName)
        /\ HasPublished(d)
        /\ TextOf(d) = BrokenText("truncated")
        /\ DiagnosticsOf(d) = Validation(TextOf(d), validate).diagnostics
        /\ Len(DiagnosticsOf(d)) = 1
        /\ \E e \in Docs : e # d /\ HasPublished(e) /\ DiagnosticsOf(e) # DiagnosticsOf(d)

(***************************************************************************)
(* C28  Frame condition for non-quiz documents.  An open, change or        *)
(* active-editor event, and either command, on a document whose name does  *)
(* not end in '.quiz' leaves every entry of the diagnostic collection as   *)
(* it was; forceValidate validates no such document.                       *)
(***************************************************************************)
\* the entries of the documents that were open before the step are unchanged
EntriesUnchanged ==
    \A d \in Docs : diagnosticCollection'[d] = diagnosticCollection[d]

NonQuizFrameStep ==
    /\ \A document \in Documents :
          ~EndsWithQuiz(document.fileName) /\ DidOpenTextDocument(document)
              => /\ EntriesUnchanged
                 /\ diagnosticCollection'[Len(textDocuments')] = NotPublished
    /\ \A d \in Docs :
          ~EndsWithQuiz(textDocuments[d].fileName)
          /\ DidChangeTextDocument(d, textDocuments'[d].text)
              => diagnosticCollection' = diagnosticCollection
    /\ \A editor \in Docs :
          ~EndsWithQuiz(textDocuments[editor].fileName)
          /\ DidChangeActiveTextEditor(editor)
              => diagnosticCollection' = diagnosticCollection
    /\ activeTextEditor # 0
       /\ ~EndsWithQuiz(textDocuments[activeTextEditor].fileName)
       /\ (ValidateCommand \/ ForceValidateCommand)
           => diagnosticCollection' = diagnosticCollection

NonQuizFrame == [][NonQuizFrameStep]_vars

\* a document that is not a quiz file is in the active editor with a text
\* that would be reported, it has no entry, and a quiz document has its list
NonQuizFrameWitness ==
    /\ activeTextEditor # 0
    /\ ~EndsWithQuiz(textDocuments[activeTextEditor].fileName)
    /\ TextOf(activeTextEditor) = BrokenText("truncated")
    /\ diagnosticCollection[activeTextEditor] = NotPublished
    /\ \E d \in Docs :
          /\ EndsWithQuiz(textDocuments[d].fileName)
          /\ HasPublished(d)
          /\ Len(DiagnosticsOf(d)) > 0

(***************************************************************************)
(* C29  Coverage of open documents.  Once the extension is activated,      *)
(* every open document whose name ends in '.quiz' has a published list     *)
(* that is the validation of its current text, the documents opened before *)
(* activation and not shown in the active editor included.                 *)
(***************************************************************************)
OpenDocumentsCovered ==
    \A d \in Docs :
        EndsWithQuiz(textDocuments[d].fileName) =>
            /\ HasPublished(d)
            /\ DiagnosticsOf(d) = Validation(TextOf(d), validate).diagnostics

(***************************************************************************)
(* C30  Detection and validation agree on what a quiz file is.  A step     *)
(* that switches an open document to the language 'quiz' switches a        *)
(* document that isQuizFile accepts and leaves it with the validation of   *)
(* its text published: no document is detected as a quiz file and left     *)
(* without validation.                                                     *)
(***************************************************************************)
SwitchedToQuiz(d) ==
    /\ textDocuments[d].languageId # "quiz"
    /\ textDocuments'[d].languageId = "quiz"

DetectionAgreesStep ==
    \A d \in Docs :
        SwitchedToQuiz(d) =>
            /\ isQuizFile(textDocuments'[d])
            /\ Refreshed(d)

DetectionAgrees == [][DetectionAgreesStep]_vars

====
